---- MODULE Spec2Model ----
(***************************************************************************)
(* Model of fx_full_threshold_dashboard.py: one run of the script, tab by  *)
(* tab, over an uploaded FX table and an uploaded trade table.             *)
(*                                                                         *)
(* Numbers.  The script works in floating point; the model works in fixed  *)
(* point.  LogReturn, VolatilityOHLC, rolling volatility, the manual       *)
(* thresholds and AbsDev are integers in units of 0.0001.  A quantile      *)
(* interpolates between two order statistics in hundredths, so a           *)
(* percentile threshold is an integer in units of 0.000001.  Quote rates   *)
(* are integers in units of 0.01.  A quotient or a z-score is kept as an   *)
(* exact fraction, never rounded.  Square roots are floored.  A missing    *)
(* value (pandas NaN / null) is the sentinel NaN, below every real value;  *)
(* every comparison with NaN is false, as in IEEE arithmetic.              *)
(*                                                                         *)
(* Tables keyed by Currency are functions from the currencies that have a  *)
(* row to the row (a record).                                              *)
(*                                                                         *)
(* The rolling volatility over the whole of df is a function of df's rows  *)
(* alone, and no block changes them.  Tab 3 computes it per currency and   *)
(* tab 5 stores it as df["RollVol"]; the model computes it once, when df   *)
(* is read (full_vol), and both tabs read it there.                        *)
(***************************************************************************)
EXTENDS Integers, Sequences, FiniteSets, TLC

VARIABLES
    pc,         \* position of the script: the next block to run
    df,         \* the FX table, per currency its rows in Date order
    cutoff,     \* the last date of the history df_hist
    currencies, \* the currencies of df in order of first appearance
    full_vol,   \* per currency the rolling volatility over all of df's rows
    pct,        \* the percentile slider of tab 1
    summary,    \* tab 1: Currency -> threshold, LatestVol, Flag
    base,       \* tab 2: Currency -> manual/statistical thresholds and flags
    garch_i,    \* tab 3: index of the loop over currencies
    garch_out,  \* tab 3: the rows appended so far (garch_df is built from it)
    fit_log,    \* tab 3: per currency "skipped", or whether the fit "raised"
                \* or "fitted" (history only)
    feat,       \* tab 4: Currency -> feature row, with the flags when fitted
    feat_cols,  \* tab 4: whether feat has the Flag_IF / Flag_OCSVM columns
    lz,         \* tab 5: Currency -> ZScore, Flag_Regime
    comp,       \* tab 6: Currency -> the six flags, as displayed (fillna(False))
    trades,     \* tab 7: the uploaded trade rows
    cmp,        \* tab 7: the trade rows with thresholds and flags
    avgAnnVol,  \* classifier check: the AvgAnnVol value applied
    grp_list    \* classifier check: the (group, threshold) pairs returned

vars == <<pc, df, cutoff, currencies, full_vol, pct, summary, base, garch_i,
          garch_out, fit_log, feat,
          feat_cols, lz, comp, trades, cmp, avgAnnVol, grp_list>>

----------------------------------------------------------------------------
(* Constants of the script *)

ROLL_WINDOW == 60

\* ANNUALIZE = sqrt(252); the model multiplies variances by its square.
ANNUALIZE_SQ == 252

\* df["Date"].max() - pd.Timedelta(days=7)
CUTOFF_DAYS == 7

\* if len(series)<100: continue
MIN_GARCH_OBS == 100

\* st.slider("Statistical Threshold Percentile", 90, 99, 95)
PCT_MIN == 90

PCT_MAX == 99

PCT_DEFAULT == 95

\* .quantile(0.95) of tab 2, in percent
TAB2_PCT == 95

\* lz["ZScore"].abs()>2
Z_LIMIT == 2

\* if len(feat)>=2
MIN_FEAT_ROWS == 2

\* The missing value: null LogReturn, NaN of a rolling window that is not
\* full, NaN of an empty quantile, NaN threshold of an unmatched trade.
NaN == -1000000

\* np.inf, the upper bound of band 4
Inf == 1000000

\* MANUAL_BANDS: group -> (lo, hi, threshold), in units of 0.0001
MANUAL_BANDS ==
    (1 :> <<0, 700, 700>>) @@ (2 :> <<700, 5000, 5000>>) @@
    (3 :> <<5000, 6000, 6000>>) @@ (4 :> <<6000, Inf, 7000>>)

\* rates of tab 7, in units of 0.01
rates ==
    ("INRUSD" :> 8350) @@ ("JPYUSD" :> 14520) @@ ("EURUSD" :> 107) @@
    ("GBPUSD" :> 125) @@ ("INRJPY" :> 58) @@ ("EURJPY" :> 15600)

----------------------------------------------------------------------------
(* Arithmetic *)

IsNaN(x) == x = NaN

\* a > b on floats: false when either side is NaN
Gt(a, b) == ~IsNaN(a) /\ ~IsNaN(b) /\ a > b

\* a < b on floats, where b may be np.inf
Lt(a, b) == ~IsNaN(a) /\ ~IsNaN(b) /\ (b = Inf \/ a < b)

\* lo <= v on floats
Le(a, b) == ~IsNaN(a) /\ ~IsNaN(b) /\ a <= b

Abs(x) == IF x < 0 THEN -x ELSE x

RECURSIVE SqrtBetween(_, _, _)
\* the largest r in lo..hi with r*r <= x, by bisection
SqrtBetween(x, lo, hi) ==
    IF lo >= hi THEN lo
    ELSE LET mid == (lo + hi + 1) \div 2
         IN  IF mid * mid <= x THEN SqrtBetween(x, mid, hi)
             ELSE SqrtBetween(x, lo, mid - 1)

\* floor of the square root
ISqrt(x) == SqrtBetween(x, 0, 40000)

----------------------------------------------------------------------------
(* tab 2: the manual band classifier *)

\* find_group_and_thresh with the band test written lo < v <= hi
find_group_and_thresh_shifted(v) ==
    LET hit == {g \in DOMAIN MANUAL_BANDS :
                  Lt(MANUAL_BANDS[g][1], v) /\
                  (MANUAL_BANDS[g][2] = Inf \/ Le(v, MANUAL_BANDS[g][2]))}
    IN  IF hit # {}
        THEN LET g == CHOOSE h \in hit : \A k \in hit : h <= k
             IN  <<g, MANUAL_BANDS[g][3]>>
        ELSE <<4, MANUAL_BANDS[4][3]>>

\* for g,(lo,hi,t) in MANUAL_BANDS.items(): if lo<=v<hi: return g,t
\* return 4,MANUAL_BANDS[4][2]
find_group_and_thresh(v) ==
    LET hit == {g \in DOMAIN MANUAL_BANDS :
                  Le(MANUAL_BANDS[g][1], v) /\ Lt(v, MANUAL_BANDS[g][2])}
    IN  IF hit # {}
        THEN LET g == CHOOSE h \in hit : \A k \in hit : h <= k
             IN  <<g, MANUAL_BANDS[g][3]>>
        ELSE <<4, MANUAL_BANDS[4][3]>>

----------------------------------------------------------------------------
(* The uploaded FX table.                                                  *)
(*                                                                         *)
(* A currency's rows are described by a profile: `lead` rows with a null   *)
(* LogReturn (nulls only at the start of a series), then segments          *)
(* <<count, amplitude>> of rows whose LogReturn alternates in sign with    *)
(* that amplitude.  Rows carry consecutive dates up to the series' last    *)
(* date.  VolatilityOHLC is the row's amplitude plus the profile's `ohlc`. *)

\* bounds of the input family
MaxAvgAnnVol == 6100

MaxLead == 1

LastDate == 150

PostOnlyRows == 3

\* amplitudes, in units of 0.0001
AmpBase == 50

AmpHigh == 60

AmpLow == 40

\* rows of a rise before the cutoff
RiseLen == 20

RECURSIVE SegTotal(_)
SegTotal(segs) ==
    IF segs = <<>> THEN 0 ELSE Head(segs)[1] + SegTotal(Tail(segs))

RECURSIVE AmpAt(_, _)
\* the amplitude of the j-th row with a LogReturn
AmpAt(segs, j) ==
    IF Len(segs) = 1 \/ j <= Head(segs)[1] THEN Head(segs)[2]
    ELSE AmpAt(Tail(segs), j - Head(segs)[1])

\* the rows of a profile, the last of them dated `last`
Series(p, last) ==
    LET n == p.lead + SegTotal(p.segs)
    IN  [k \in 1..n |->
           LET a == AmpAt(p.segs, IF k <= p.lead THEN 1 ELSE k - p.lead)
           IN  [Date |-> last - n + k,
                LogReturn |-> IF k <= p.lead THEN NaN
                              ELSE IF k % 2 = 1 THEN a ELSE -a,
                VolatilityOHLC |-> a + p.ohlc]]

\* h rows with a LogReturn on or before the cutoff, then CUTOFF_DAYS rows after
\* it; the shapes differ in where the amplitude changes
Shape(kind, h) ==
    CASE kind = "flat"  -> <<<<h + CUTOFF_DAYS, AmpBase>>>>
      [] kind = "rise"  -> <<<<h - RiseLen, AmpBase>>,
                             <<RiseLen + CUTOFF_DAYS, AmpHigh>>>>
      [] kind = "spike" -> <<<<h, AmpBase>>, <<CUTOFF_DAYS, AmpHigh>>>>
      [] kind = "dip"   -> <<<<h, AmpBase>>, <<CUTOFF_DAYS, AmpLow>>>>
      [] kind = "peak"  -> <<<<h - ROLL_WINDOW - 1, AmpBase>>, <<1, AmpHigh>>,
                             <<ROLL_WINDOW - RiseLen, AmpBase>>,
                             <<RiseLen - 1, AmpHigh>>,
                             <<1 + CUTOFF_DAYS, AmpBase>>>>

Kinds == {"flat", "rise", "spike", "dip", "peak"}

\* on either side of the GARCH minimum: 99 and 100
HistCounts == (MIN_GARCH_OBS - 1)..MIN_GARCH_OBS

\* the first currency: every shape with MIN_GARCH_OBS rows of history, and the
\* flat one also with leading nulls and with one row of history fewer
MainProfiles ==
    {[lead |-> 0, segs |-> Shape(k, MIN_GARCH_OBS), ohlc |-> -10] : k \in Kinds}
    \cup
    {[lead |-> l, segs |-> Shape("flat", h), ohlc |-> -10] :
        l \in 0..MaxLead, h \in HistCounts}

\* a second currency: long enough for GARCH; too short for any rolling window;
\* one rolling window and six rows more, whose amplitudes put the last
\* z-score at -2 exactly (rolling volatility 800, 800, 799, 799, 799, 799, 797)
SideProfiles ==
    {[lead |-> 0, segs |-> Shape("flat", MIN_GARCH_OBS), ohlc |-> 0],
     [lead |-> 0, segs |-> <<<<ROLL_WINDOW - RiseLen, AmpBase>>>>, ohlc |-> 0],
     [lead |-> 0, segs |-> <<<<ROLL_WINDOW, AmpBase>>, <<5, AmpBase - 1>>,
                             <<1, AmpBase - 6>>>>, ohlc |-> 0]}

\* a currency whose rows all fall after the cutoff
LateProfiles ==
    {[lead |-> 0, segs |-> <<<<PostOnlyRows, AmpBase>>>>, ohlc |-> 0]}

\* the FX tables of the family: EURUSD and AUDUSD always, JPYUSD sometimes;
\* every series ends on LastDate
Datasets ==
    {("EURUSD" :> Series(m, LastDate)) @@ ("AUDUSD" :> Series(s, LastDate)) :
        m \in MainProfiles, s \in SideProfiles}
    \cup
    {("EURUSD" :> Series(m, LastDate)) @@ ("AUDUSD" :> Series(s, LastDate))
        @@ ("JPYUSD" :> Series(l, LastDate)) :
        m \in MainProfiles, s \in SideProfiles, l \in LateProfiles}

\* the values of the percentile slider that are tried
Percentiles == {PCT_MIN, PCT_DEFAULT, PCT_MAX}

----------------------------------------------------------------------------
(* Columns and rolling statistics *)

RECURSIVE ByFirstDate(_, _)
\* df["Currency"].unique().tolist(): the currencies cs of table t in order of
\* appearance in the table sorted by Date, the one whose first row is
\* earliest first (rows of one date in the order of their names)
ByFirstDate(t, cs) ==
    IF cs = {} THEN <<>>
    ELSE LET Before(a, b) ==
                 \/ t[a][1].Date < t[b][1].Date
                 \/ t[a][1].Date = t[b][1].Date /\ a \in {"AUDUSD"}
                 \/ t[a][1].Date = t[b][1].Date /\ b \in {"JPYUSD"}
             c == CHOOSE a \in cs : \A b \in cs \ {a} : Before(a, b)
         IN  <<c>> \o ByFirstDate(t, cs \ {c})

\* df["Date"].max()
MaxDate(t) ==
    LET dates == UNION {{t[c][i].Date : i \in 1..Len(t[c])} : c \in DOMAIN t}
    IN  CHOOSE d \in dates : \A e \in dates : e <= d

\* df[df["Date"] <= cutoff], one currency's rows
Hist(rows) == SelectSeq(rows, LAMBDA r : r.Date <= cutoff)

\* the currencies with a row in df_hist (the groups of a groupby on it)
HistCurrencies == {c \in DOMAIN df : Hist(df[c]) # <<>>}

LogReturns(rows) == [i \in 1..Len(rows) |-> rows[i].LogReturn]

\* .dropna()
DropNa(xs) == SelectSeq(xs, LAMBDA x : ~IsNaN(x))

\* sample standard deviation times ANNUALIZE of n values with sum s1 and sum
\* of squares s2
AnnStd(n, s1, s2) ==
    ISqrt((((s2 - ((s1 * s1) \div n)) * ANNUALIZE_SQ)) \div (n - 1))

RECURSIVE Roll(_, _)
\* one pass over xs; w keeps the window's sum (s1), sum of squares (s2) and
\* count of nulls, and the values put out so far (acc)
Roll(xs, w) ==
    LET i == Len(w.acc) + 1
    IN  IF i > Len(xs) THEN w.acc
        ELSE
          LET inn  == xs[i]
              has  == i > ROLL_WINDOW
              out  == IF has THEN xs[i - ROLL_WINDOW] ELSE NaN
              a1   == w.s1 + (IF IsNaN(inn) THEN 0 ELSE inn)
                           - (IF has /\ ~IsNaN(out) THEN out ELSE 0)
              a2   == w.s2 + (IF IsNaN(inn) THEN 0 ELSE inn * inn)
                           - (IF has /\ ~IsNaN(out) THEN out * out ELSE 0)
              nn   == w.nulls + (IF IsNaN(inn) THEN 1 ELSE 0)
                              - (IF has /\ IsNaN(out) THEN 1 ELSE 0)
              val  == IF i >= ROLL_WINDOW /\ nn = 0
                      THEN AnnStd(ROLL_WINDOW, a1, a2) ELSE NaN
          IN  Roll(xs, [s1 |-> a1, s2 |-> a2, nulls |-> nn,
                        acc |-> Append(w.acc, val)])

\* .rolling(ROLL_WINDOW).std() * ANNUALIZE: NaN until the window holds
\* ROLL_WINDOW values, none of them null
RollVol(xs) == Roll(xs, [s1 |-> 0, s2 |-> 0, nulls |-> 0, acc |-> <<>>])

\* x.sort_values("Date")["RollVol"].iloc[-1]: the value on the last date
Latest(xs) == xs[Len(xs)]

\* the k-th smallest value of ys (an order statistic), k in 1..Len(ys)
Kth(ys, k) ==
    CHOOSE v \in {ys[j] : j \in DOMAIN ys} :
        /\ Cardinality({j \in DOMAIN ys : ys[j] < v}) < k
        /\ k <= Cardinality({j \in DOMAIN ys : ys[j] <= v})

\* .quantile(q/100) with linear interpolation, NaN skipped, times 100;
\* NaN when no value is left
Quantile(xs, q) ==
    LET ys == DropNa(xs)
        n  == Len(ys)
        h  == (n - 1) * q
        lo == h \div 100
        fr == h % 100
    IN  IF n = 0 THEN NaN
        ELSE IF fr = 0 THEN 100 * Kth(ys, lo + 1)
        ELSE 100 * Kth(ys, lo + 1) + fr * (Kth(ys, lo + 2) - Kth(ys, lo + 1))

RECURSIVE SumOf(_, _, _)
\* the sum of xs[lo..hi]
SumOf(xs, lo, hi) ==
    IF lo > hi THEN 0
    ELSE IF lo = hi THEN xs[lo]
    ELSE LET mid == (lo + hi) \div 2
         IN  SumOf(xs, lo, mid) + SumOf(xs, mid + 1, hi)

\* the sum of the values of xs, and of their squares
Sum(xs) == SumOf(xs, 1, Len(xs))

SumSq(xs) == SumOf([i \in DOMAIN xs |-> xs[i] * xs[i]], 1, Len(xs))

----------------------------------------------------------------------------
(* The run *)

NoTable == [c \in {} |-> 0]

Init ==
    /\ pc = "upload"
    /\ df = NoTable
    /\ cutoff = NaN
    /\ currencies = <<>>
    /\ full_vol = NoTable
    /\ pct = PCT_DEFAULT
    /\ summary = NoTable
    /\ base = NoTable
    /\ garch_i = 1
    /\ garch_out = <<>>
    /\ fit_log = NoTable
    /\ feat = NoTable
    /\ feat_cols = FALSE
    /\ lz = NoTable
    /\ comp = NoTable
    /\ trades = <<>>
    /\ cmp = <<>>
    /\ avgAnnVol = NaN
    /\ grp_list = <<>>

\* if not uploaded_fx: st.stop()
NoUpload ==
    /\ pc = "upload"
    /\ pc' = "stopped"
    /\ UNCHANGED <<df, cutoff, currencies, full_vol, pct, summary, base, garch_i, garch_out,
                   fit_log, feat, feat_cols, lz, comp, trades, cmp, avgAnnVol,
                   grp_list>>

\* df = pd.read_csv(...); df = df.sort_values("Date")
Upload ==
    /\ pc = "upload"
    /\ \E ds \in Datasets :
         /\ df' = ds
         /\ cutoff' = MaxDate(ds) - CUTOFF_DAYS
         /\ currencies' = ByFirstDate(ds, DOMAIN ds)
         /\ full_vol' = [c \in DOMAIN ds |-> RollVol(LogReturns(ds[c]))]
    /\ pc' = "tab1"
    /\ UNCHANGED <<pct, summary, base, garch_i, garch_out, fit_log, feat,
                   feat_cols, lz, comp, trades, cmp, avgAnnVol, grp_list>>

\* the rolling volatility of one currency over df_hist (tmp of tabs 1 and 2)
HistRollVol(c) == RollVol(LogReturns(Hist(df[c])))

\* the summary row of tab 1 for percentile p
SummaryRow(c, p) ==
    LET tmp    == HistRollVol(c)
        thresh == Quantile(tmp, p)
        latest == Latest(tmp)
    IN  [Thresh |-> thresh, LatestVol |-> latest,
         Flag |-> Gt(100 * latest, thresh)]

Tab1 ==
    /\ pc = "tab1"
    /\ \E p \in Percentiles :
         /\ pct' = p
         /\ summary' = [c \in HistCurrencies |-> SummaryRow(c, p)]
    /\ pc' = "tab2"
    /\ UNCHANGED <<df, cutoff, currencies, full_vol, base, garch_i, garch_out, fit_log, feat, feat_cols, lz,
                   comp, trades, cmp, avgAnnVol, grp_list>>

\* df_hist.groupby("Currency")["VolatilityOHLC"].mean() * ANNUALIZE
AvgAnnVolOf(c) ==
    LET rows == Hist(df[c])
        ohlc == [i \in DOMAIN rows |-> rows[i].VolatilityOHLC]
        mean == Sum(ohlc) \div Len(rows)
    IN  ISqrt(mean * mean * ANNUALIZE_SQ)

\* the statistical threshold of tab 2 over a currency's rows of tmp
StatThreshOf(tmp) == Quantile(tmp, TAB2_PCT)

\* the row of `base` for one currency
BaseRow(c) ==
    LET avg  == AvgAnnVolOf(c)
        gt   == find_group_and_thresh(avg)
        tmp  == HistRollVol(c)
        stat == StatThreshOf(tmp)
        cur  == Latest(tmp)
    IN  [AvgAnnVol |-> avg, ManualGroup |-> gt[1], ManualThreshold |-> gt[2],
         StatisticalThreshold |-> stat, CurrentVol |-> cur,
         Flag_Manual |-> Gt(cur, gt[2]),
         Flag_Statistical |-> Gt(100 * cur, stat)]

Tab2 ==
    /\ pc = "tab2"
    /\ base' = [c \in HistCurrencies |-> BaseRow(c)]
    /\ pc' = "tab3"
    /\ UNCHANGED <<df, cutoff, currencies, full_vol, pct, summary, garch_i, garch_out, fit_log,
                   feat, feat_cols, lz, comp, trades, cmp, avgAnnVol, grp_list>>

----------------------------------------------------------------------------
(* tab 3: GARCH *)

\* the forecasts arch_model may return, annualized, in units of 0.0001
GarchForecasts == {400, 800}

\* what m.fit / r.forecast may do: raise, or return a forecast
FitOutcomes ==
    {[ok |-> FALSE, f |-> NaN]} \cup {[ok |-> TRUE, f |-> x] : x \in GarchForecasts}

\* series = df_hist[df_hist["Currency"]==ccy]["LogReturn"].dropna()
GarchSeries(ccy) ==
    IF ccy \in HistCurrencies THEN DropNa(LogReturns(Hist(df[ccy]))) ELSE <<>>

\* the loop goes on to the body with one observation more than the minimum
LongEnough_over(series) == Len(series) > MIN_GARCH_OBS

\* if len(series)<100: continue
LongEnough(series) == ~(Len(series) < MIN_GARCH_OBS)

\* cvol > f*1.5
ExceedsForecast(cvol, f) == Gt(2 * cvol, 3 * f)

\* one pass of the loop body
GarchStep ==
    /\ pc = "tab3"
    /\ garch_i <= Len(currencies)
    /\ LET ccy    == currencies[garch_i]
           series == GarchSeries(ccy)
           cvols  == DropNa(full_vol[ccy])
       IN  IF ~LongEnough(series)
           THEN /\ fit_log' = fit_log @@ (ccy :> "skipped")
                /\ UNCHANGED garch_out
           ELSE \E o \in FitOutcomes :
                  /\ fit_log' = fit_log @@
                                  (ccy :> IF o.ok THEN "fitted" ELSE "raised")
                  /\ IF ~o.ok \/ cvols = <<>>
                     THEN \* except: pass
                          UNCHANGED garch_out
                     ELSE LET cvol == cvols[Len(cvols)]
                          IN  garch_out' = Append(garch_out,
                                  [Currency |-> ccy, GARCHForecast |-> o.f,
                                   CurrentVol |-> cvol,
                                   Flag_GARCH |-> ExceedsForecast(cvol, o.f)])
    /\ garch_i' = garch_i + 1
    /\ UNCHANGED <<pc, df, cutoff, currencies, full_vol, pct, summary, base, feat, feat_cols, lz,
                   comp, trades, cmp, avgAnnVol, grp_list>>

\* garch_df = pd.DataFrame(garch_out)
GarchDone ==
    /\ pc = "tab3"
    /\ garch_i > Len(currencies)
    /\ pc' = "tab4"
    /\ UNCHANGED <<df, cutoff, currencies, full_vol, pct, summary, base, garch_i, garch_out,
                   fit_log, feat, feat_cols, lz, comp, trades, cmp, avgAnnVol,
                   grp_list>>

\* the currencies with a row in garch_df
GarchCurrencies == {garch_out[i].Currency : i \in DOMAIN garch_out}

GarchRow(c) == garch_out[CHOOSE i \in DOMAIN garch_out : garch_out[i].Currency = c]

----------------------------------------------------------------------------
(* tab 4: anomaly detection.  Of Skew and Kurt the model keeps only whether *)
(* they are NaN; what the two fitted models predict is left open.          *)

\* x.std()*ANNUALIZE: pandas skips nulls; NaN with fewer than 2 values
VolFeature(xs) ==
    LET ys == DropNa(xs)
    IN  IF Len(ys) < 2 THEN NaN
        ELSE AnnStd(Len(ys), Sum(ys), SumSq(ys))

\* scipy's skew and kurtosis: NaN when a value is null or all values are equal
MomentsDefined(xs) ==
    /\ \A i \in DOMAIN xs : ~IsNaN(xs[i])
    /\ \E i, j \in DOMAIN xs : xs[i] # xs[j]

\* the rows of feat left by .dropna()
FeatCurrencies ==
    {c \in HistCurrencies :
        LET xs == LogReturns(Hist(df[c]))
        IN  ~IsNaN(VolFeature(xs)) /\ MomentsDefined(xs)}

Tab4 ==
    /\ pc = "tab4"
    /\ LET cs == FeatCurrencies
       IN  IF Cardinality(cs) >= MIN_FEAT_ROWS
           THEN \E ifo \in SUBSET cs : \E svm \in SUBSET cs :
                  /\ feat' = [c \in cs |->
                                [Vol |-> VolFeature(LogReturns(Hist(df[c]))),
                                 Flag_IF |-> c \in ifo,
                                 Flag_OCSVM |-> c \in svm]]
                  /\ feat_cols' = TRUE
           ELSE /\ feat' = [c \in cs |->
                                [Vol |-> VolFeature(LogReturns(Hist(df[c])))]]
                /\ feat_cols' = FALSE
    /\ pc' = "tab5"
    /\ UNCHANGED <<df, cutoff, currencies, full_vol, pct, summary, base, garch_i, garch_out,
                   fit_log, lz, comp, trades, cmp, avgAnnVol, grp_list>>

----------------------------------------------------------------------------
(* tab 5: regime detection.  A z-score is kept exact: with n values of sum *)
(* S and sum of squares Q (taken from the first value, which changes       *)
(* neither the deviations nor the variance), the value x has               *)
(* z = dev / sqrt(n * ssq / (n - 1)), where dev = n*x - S, ssq = n*Q - S*S. *)

NaNZ == [nan |-> TRUE, dev |-> 0, n |-> 0, ssq |-> 0]

\* what x.mean() and x.std() need of xs: the count n of its values that are
\* not NaN, the first of them, and the sum s and sum of squares q of the
\* others' distances from it
Moments(xs) ==
    LET ys == DropNa(xs)
        n  == Len(ys)
        us == [i \in DOMAIN ys |-> ys[i] - ys[1]]
    IN  IF n = 0 THEN [n |-> 0, first |-> 0, s |-> 0, q |-> 0]
        ELSE [n |-> n, first |-> ys[1], s |-> Sum(us), q |-> SumSq(us)]

\* (x - x.mean()) / x.std() for the value x, given the moments of its series
ZScoreOf(x, m) ==
    LET ssq == m.n * m.q - m.s * m.s
        dev == m.n * (x - m.first) - m.s
    IN  IF IsNaN(x) \/ m.n < 2 \/ (ssq = 0 /\ dev = 0) THEN NaNZ
        ELSE [nan |-> FALSE, dev |-> dev, n |-> m.n, ssq |-> ssq]

RECURSIVE LastValidZ(_, _, _)
\* the z-score of the last of xs[1..i] whose z-score is not NaN
LastValidZ(xs, m, i) ==
    IF i = 0 THEN NaNZ
    ELSE IF ~ZScoreOf(xs[i], m).nan THEN ZScoreOf(xs[i], m)
    ELSE LastValidZ(xs, m, i - 1)

\* .last(): the last z-score of the group that is not NaN, NaN when none is
LastZScore(xs) == LastValidZ(xs, Moments(xs), Len(xs))

\* the z-score test with the sign kept: z > 2
ExceedsLimit_signed(z) ==
    ~z.nan /\ z.dev > 0 /\
    z.dev * z.dev * (z.n - 1) > Z_LIMIT * Z_LIMIT * z.n * z.ssq

\* lz["ZScore"].abs()>2
ExceedsLimit(z) ==
    ~z.nan /\ z.dev * z.dev * (z.n - 1) > Z_LIMIT * Z_LIMIT * z.n * z.ssq

Tab5 ==
    /\ pc = "tab5"
    /\ lz' = [c \in DOMAIN df |->
                LET z == LastZScore(full_vol[c])
                IN  [ZScore |-> z, Flag_Regime |-> ExceedsLimit(z)]]
    /\ pc' = "tab6"
    /\ UNCHANGED <<df, cutoff, currencies, full_vol, pct, summary, base, garch_i, garch_out,
                   fit_log, feat, feat_cols, comp, trades, cmp, avgAnnVol,
                   grp_list>>

----------------------------------------------------------------------------
(* tab 6: model comparison *)

\* garch_df[["Currency","Flag_GARCH"]] and feat[["Flag_IF","Flag_OCSVM"]]
\* raise KeyError when the columns are not there: an empty garch_out makes a
\* frame with no columns, and feat gets its flags only when it is fitted
ColumnsPresent == garch_out # <<>> /\ feat_cols

\* one row of the left merges from base, as displayed after fillna(False)
CompRow(c) ==
    [Flag_Manual |-> base[c].Flag_Manual,
     Flag_Statistical |-> base[c].Flag_Statistical,
     Flag_GARCH |-> IF c \in GarchCurrencies THEN GarchRow(c).Flag_GARCH
                    ELSE FALSE,
     Flag_IF |-> IF c \in DOMAIN feat THEN feat[c].Flag_IF ELSE FALSE,
     Flag_OCSVM |-> IF c \in DOMAIN feat THEN feat[c].Flag_OCSVM ELSE FALSE,
     Flag_Regime |-> IF c \in DOMAIN lz THEN lz[c].Flag_Regime ELSE FALSE]

Tab6 ==
    /\ pc = "tab6"
    /\ IF ColumnsPresent
       THEN /\ comp' = [c \in DOMAIN base |-> CompRow(c)]
            /\ pc' = "tab7"
       ELSE \* KeyError: the script ends here
            /\ pc' = "error"
            /\ UNCHANGED comp
    /\ UNCHANGED <<df, cutoff, currencies, full_vol, pct, summary, base, garch_i, garch_out,
                   fit_log, feat, feat_cols, lz, trades, cmp, avgAnnVol,
                   grp_list>>

----------------------------------------------------------------------------
(* tab 7: trade backtesting.  A threshold in deviation space is the exact  *)
(* fraction num / den, in units of 0.0001.                                 *)

\* the uploaded trade tables of the family: one trade per instrument, all
\* with the same DeviationPct
TradeInstruments == <<"EURUSD", "AUDUSD", "GBPUSD">>

DeviationPcts == {-800, 500, 5000, -5001}

TradeInputs ==
    {[i \in DOMAIN TradeInstruments |->
        [Instrument |-> TradeInstruments[i], DeviationPct |-> d]] :
        d \in DeviationPcts}

NaNFrac == [nan |-> TRUE, num |-> 0, den |-> 1]

\* rates.get(r["Currency"], 100): the fallback taken for a percentage
Divisor_percent(c) == IF c \in DOMAIN rates THEN rates[c] ELSE 10000

\* rates.get(r["Currency"],1), in units of 0.01
Divisor(c) == IF c \in DOMAIN rates THEN rates[c] ELSE 100

\* th["ManualPct"], th["StatPct"]: threshold / rate, NaN for a NaN threshold
ManualPctOf(c) ==
    [nan |-> FALSE, num |-> 100 * base[c].ManualThreshold, den |-> Divisor(c)]

StatPctOf(c) ==
    IF IsNaN(base[c].StatisticalThreshold) THEN NaNFrac
    ELSE [nan |-> FALSE, num |-> base[c].StatisticalThreshold, den |-> Divisor(c)]

\* a > num/den on floats
GtFrac(a, fr) == ~IsNaN(a) /\ ~fr.nan /\ a * fr.den > fr.num

\* one row of trades.merge(th, left_on="Instrument", right_on="Currency",
\* how="left") with the two flags
CmpRow(t) ==
    LET hit    == t.Instrument \in DOMAIN base
        absdev == Abs(t.DeviationPct)
        mp     == IF hit THEN ManualPctOf(t.Instrument) ELSE NaNFrac
        sp     == IF hit THEN StatPctOf(t.Instrument) ELSE NaNFrac
    IN  [Instrument |-> t.Instrument, AbsDev |-> absdev,
         ManualPct |-> mp, StatPct |-> sp,
         Flag_Manual |-> GtFrac(absdev, mp), Flag_Stat |-> GtFrac(absdev, sp)]

\* if not trade_file: st.stop()
NoTradeFile ==
    /\ pc = "tab7"
    /\ pc' = "stopped"
    /\ UNCHANGED <<df, cutoff, currencies, full_vol, pct, summary, base, garch_i, garch_out,
                   fit_log, feat, feat_cols, lz, comp, trades, cmp, avgAnnVol,
                   grp_list>>

Tab7 ==
    /\ pc = "tab7"
    /\ \E ts \in TradeInputs :
         /\ trades' = ts
         /\ cmp' = [i \in DOMAIN ts |-> CmpRow(ts[i])]
    /\ summary' =
         [Flag_Manual |-> Cardinality({i \in DOMAIN cmp' : cmp'[i].Flag_Manual}),
          Flag_Stat |-> Cardinality({i \in DOMAIN cmp' : cmp'[i].Flag_Stat})]
    /\ pc' = "done"
    /\ UNCHANGED <<df, cutoff, currencies, full_vol, pct, base, garch_i, garch_out, fit_log, feat,
                   feat_cols, lz, comp, avgAnnVol, grp_list>>

Next ==
    \/ NoUpload \/ Upload \/ Tab1 \/ Tab2 \/ GarchStep \/ GarchDone
    \/ Tab4 \/ Tab5 \/ Tab6 \/ NoTradeFile \/ Tab7

Spec == Init /\ [][Next]_vars

----------------------------------------------------------------------------
(* The band classifier on its own: every AvgAnnVol up to MaxAvgAnnVol *)

InitBands ==
    /\ pc = "classify"
    /\ avgAnnVol \in 0..MaxAvgAnnVol
    /\ grp_list = <<>>
    /\ df = NoTable /\ cutoff = NaN /\ currencies = <<>>
    /\ full_vol = NoTable /\ pct = PCT_DEFAULT
    /\ summary = NoTable /\ base = NoTable /\ garch_i = 1 /\ garch_out = <<>>
    /\ fit_log = NoTable /\ feat = NoTable /\ feat_cols = FALSE
    /\ lz = NoTable /\ comp = NoTable /\ trades = <<>> /\ cmp = <<>>

\* grp_list = avg_ohlc["AvgAnnVol"].apply(find_group_and_thresh).tolist()
Classify ==
    /\ pc = "classify"
    /\ grp_list' = Append(grp_list, find_group_and_thresh(avgAnnVol))
    /\ pc' = "classified"
    /\ UNCHANGED <<df, cutoff, currencies, full_vol, pct, summary, base, garch_i, garch_out,
                   fit_log, feat, feat_cols, lz, comp, trades, cmp, avgAnnVol>>

NextBands == Classify

SpecBands == InitBands /\ [][NextBands]_vars

----------------------------------------------------------------------------
(* Properties *)

\* C1: for every AvgAnnVol v >= 0 find_group_and_thresh returns one band of
\* 1..4 with that band's threshold, and it is the only band whose interval
\* [lo, hi) holds v: [0, 0.07) -> (1, 0.07), [0.07, 0.50) -> (2, 0.50),
\* [0.50, 0.60) -> (3, 0.60), [0.60, inf) -> (4, 0.70).
BandClassifierTotality ==
    pc = "classified" =>
        LET v == avgAnnVol
            r == grp_list[Len(grp_list)]
            holding == {g \in 1..4 : Le(MANUAL_BANDS[g][1], v) /\
                                      Lt(v, MANUAL_BANDS[g][2])}
        IN  /\ Len(grp_list) = 1
            /\ holding = {r[1]}
            /\ r = (IF v < 700 THEN <<1, 700>>
                    ELSE IF v < 5000 THEN <<2, 5000>>
                    ELSE IF v < 6000 THEN <<3, 6000>>
                    ELSE <<4, 7000>>)

\* a lower bound belongs to its band: 0.07 is classified into band 2
BandBoundaryClassified ==
    pc = "classified" /\ avgAnnVol = 700 /\ grp_list = <<(<<2, 5000>>)>>

\* C2: the statistical flag of a currency (Flag of the summary table,
\* Flag_Statistical of the manual-vs-statistical table) is true iff the last
\* rolling volatility of the FULL series, rows after the cutoff included, is
\* strictly greater than the table's percentile threshold.
StatFlagFromFullSeries ==
    /\ pc = "tab2" =>
         \A c \in DOMAIN summary :
            summary[c].Flag <=>
                Gt(100 * Latest(full_vol[c]), summary[c].Thresh)
    /\ pc = "tab3" =>
         \A c \in DOMAIN base :
            base[c].Flag_Statistical <=>
                Gt(100 * Latest(full_vol[c]), base[c].StatisticalThreshold)

\* C3: the run never ends in an error: also when GARCH puts out no row, and
\* when fewer than two currencies have anomaly features, the comparison table
\* is produced.
RunNeverAborts == pc # "error"

\* C4: once the GARCH loop is over every currency has been processed, and a
\* currency has a row in the GARCH output iff it has at least 100 non-null
\* LogReturn rows on or before the cutoff and its fit returned; with fewer
\* than 100 (99 too) the currency is skipped, with 100 or more it is not.
GarchRowIffEnoughAndFitted ==
    pc = "tab4" =>
        /\ DOMAIN fit_log = DOMAIN df
        /\ \A c \in DOMAIN df :
              LET obs == Cardinality({i \in DOMAIN df[c] :
                             df[c][i].Date <= cutoff /\
                             df[c][i].LogReturn # NaN})
                  rws == {i \in DOMAIN garch_out : garch_out[i].Currency = c}
              IN  /\ fit_log[c] = "skipped" <=> obs < 100
                  /\ rws # {} <=> (obs >= 100 /\ fit_log[c] = "fitted")
                  /\ Cardinality(rws) <= 1

\* a currency with 99 observations is absent, one with 100 and a fit that
\* returned is present, in the same run
GarchSkipsAt99KeepsAt100 ==
    /\ pc = "tab4"
    /\ \E c, d \in DOMAIN df :
          /\ Cardinality({i \in DOMAIN df[c] :
                 df[c][i].Date <= cutoff /\ df[c][i].LogReturn # NaN}) = 99
          /\ c \notin GarchCurrencies
          /\ Cardinality({i \in DOMAIN df[d] :
                 df[d][i].Date <= cutoff /\ df[d][i].LogReturn # NaN}) = 100
          /\ fit_log[d] = "fitted"
          /\ d \in GarchCurrencies

\* C5: once the comparison has been attempted, every currency of base that
\* has no row in the GARCH output is in the comparison table with
\* Flag_GARCH = false.
ComparatorFillsFalse ==
    pc \in {"tab7", "error"} =>
        \A c \in DOMAIN base \ GarchCurrencies :
            c \in DOMAIN comp /\ comp[c].Flag_GARCH = FALSE

\* C6: the comparison table is an outer join on Currency: every currency with
\* a row in any model output (base, GARCH, anomaly features, regime) has a row
\* in it, a currency that only the regime output holds included.
ComparatorOuterJoin ==
    pc = "tab7" =>
        (DOMAIN base \cup GarchCurrencies \cup DOMAIN feat \cup DOMAIN lz)
            \subseteq DOMAIN comp

\* C7: a trade's Flag_Manual (Flag_Stat) is true iff its Instrument is a
\* Currency of the threshold table and |DeviationPct| is strictly greater
\* than ManualThreshold / d (StatisticalThreshold / d), d being the quote rate
\* of the currency, or 1 when it has none; a trade that matches no currency
\* has both flags false.  With quote rate 1.07 and ManualThreshold 0.07,
\* AbsDev 0.08 is flagged and AbsDev 0.05 is not.
TradeFlagsIffOverConvertedThreshold ==
    pc = "done" =>
        /\ Len(cmp) = Len(trades)
        /\ \A i \in DOMAIN trades :
              LET c == trades[i].Instrument
                  a == IF trades[i].DeviationPct < 0
                       THEN 0 - trades[i].DeviationPct
                       ELSE trades[i].DeviationPct
                  d == CASE c = "INRUSD" -> 8350 [] c = "JPYUSD" -> 14520
                         [] c = "EURUSD" -> 107  [] c = "GBPUSD" -> 125
                         [] c = "INRJPY" -> 58   [] c = "EURJPY" -> 15600
                         [] OTHER -> 100
              IN  /\ cmp[i].Instrument = c
                  /\ cmp[i].Flag_Manual <=>
                        (c \in DOMAIN base /\
                         a * d > 100 * base[c].ManualThreshold)
                  /\ cmp[i].Flag_Stat <=>
                        (c \in DOMAIN base /\
                         base[c].StatisticalThreshold # NaN /\
                         a * d > base[c].StatisticalThreshold)
                  /\ (c = "EURUSD" /\ c \in DOMAIN base /\
                      base[c].ManualThreshold = 700) =>
                        /\ a = 800 => cmp[i].Flag_Manual
                        /\ a = 500 => ~cmp[i].Flag_Manual

\* the spec's example (EURUSD, 1.07, 0.07, AbsDev 0.08: flagged), a currency
\* without a quote rate flagged against its unconverted threshold, and a trade
\* that matches no currency, in one backtest
TradeExampleFlagged ==
    /\ pc = "done"
    /\ base["EURUSD"].ManualThreshold = 700
    /\ \E i, j, k \in DOMAIN cmp :
          /\ cmp[i].Instrument = "EURUSD" /\ cmp[i].AbsDev = 800
          /\ cmp[i].Flag_Manual
          /\ cmp[j].Instrument = "GBPUSD"
          /\ ~cmp[j].Flag_Manual /\ ~cmp[j].Flag_Stat
          /\ cmp[k].Instrument = "AUDUSD"
          /\ cmp[k].AbsDev * 100 <= 100 * base["AUDUSD"].ManualThreshold
          /\ ~cmp[k].Flag_Manual

\* C8: a currency's Flag_Regime is true iff |z| > 2, z being the z-score of
\* the rolling volatility on the currency's most recent date against the mean
\* and standard deviation of all of the currency's rolling volatility (rows
\* after the cutoff included); without such a z-score the flag is false.
RegimeFlagIffAbsZOverTwo ==
    pc = "tab6" =>
        /\ DOMAIN lz = DOMAIN df
        /\ \A c \in DOMAIN lz :
              LET x   == full_vol[c][Len(full_vol[c])]
                  ys  == SelectSeq(full_vol[c], LAMBDA y : y # NaN)
                  n   == Len(ys)
                  ds  == [i \in 1..n |-> ys[i] - x]
                  s   == Sum(ds)
                  q   == Sum([i \in 1..n |-> ds[i] * ds[i]])
              IN  lz[c].Flag_Regime <=>
                     /\ x # NaN
                     /\ n >= 2
                     /\ n * q - s * s > 0
                     /\ s * s * (n - 1) > 4 * n * (n * q - s * s)

\* a currency flagged for a drop of its volatility (z < -2) and, in the same
\* table, one whose z-score is -2 exactly and is not flagged
RegimeFlaggedOnDrop ==
    /\ pc = "tab6"
    /\ \E c, d \in DOMAIN lz :
          /\ lz[c].Flag_Regime /\ lz[c].ZScore.dev < 0
          /\ ~lz[d].ZScore.nan /\ lz[d].ZScore.dev < 0
          /\ lz[d].ZScore.dev * lz[d].ZScore.dev * (lz[d].ZScore.n - 1)
                = 4 * lz[d].ZScore.n * lz[d].ZScore.ssq
          /\ ~lz[d].Flag_Regime

\* C9: for a currency whose rolling volatility has no spread (fewer than two
\* values, none at all for a currency with fewer than 60 observations, or all
\* values equal) Flag_Regime is false and the z-score of the output row is
\* not an undefined value.
RegimeDegenerateHandled ==
    pc = "tab6" =>
        \A c \in DOMAIN lz :
            LET vals == {full_vol[c][i] : i \in DOMAIN full_vol[c]} \ {NaN}
                cnt  == Cardinality({i \in DOMAIN full_vol[c] :
                                        full_vol[c][i] # NaN})
            IN  (cnt < 2 \/ Cardinality(vals) = 1) =>
                    ~lz[c].Flag_Regime /\ ~lz[c].ZScore.nan

\* C10: the StatisticalThreshold of base, which Flag_Statistical and StatPct
\* are computed from, is the threshold the summary table reports for the
\* percentile chosen on the slider.
StatThresholdIsConfiguredPercentile ==
    pc = "tab3" =>
        \A c \in DOMAIN base :
            c \in DOMAIN summary /\
            base[c].StatisticalThreshold = summary[c].Thresh

====
